---- MODULE Spec2Model ----
(***************************************************************************)
(* Point - Plane collision demo (src/PointPlane/main.cpp).                 *)
(*                                                                         *)
(* Numbers.  A length is an integer count of 1e-7 world units, so that     *)
(* movementSpeed (0.02), acceptanceRange (0.002), the two start offsets    *)
(* (0.15) and FLT_EPSILON (1.19e-7, one unit) are all on the grid and the  *)
(* arithmetic is exact.  A glm::mat4 is a function m[c][r], column first   *)
(* as in glm; the entries of its upper-left 3x3 block and of its last row  *)
(* are plain numbers, the first three entries of column 3 are lengths.     *)
(* An angle is an integer count of quarter turns: the cursor coordinates   *)
(* are measured in the cursor travel that update() turns into a quarter    *)
(* turn ((pi/2)/rotationSpeed pixels), so every rotation matrix has        *)
(* entries in {-1, 0, 1}.                                                  *)
(***************************************************************************)
EXTENDS Integers, Sequences, FiniteSets

\* ------------------------------------------------------------------ bounds
\* input events (key, mouse button, cursor motion) in a run
MaxEvents == 2
\* key events in a run of the keyboard alone
MaxKeys == 3
\* common translations applied to the plane and the point
MaxShifts == 2
\* the tested points lie within MaxOff grid steps of the edge of the tolerance band
MaxOff == 2

\* ------------------------------------------------------- program constants
\* float movementSpeed = 0.02f
movementSpeed == 200000
\* float acceptanceRange = 0.002f
acceptanceRange == 20000
\* FLT_EPSILON
FLT_EPSILON == 1
\* the plane starts at x = +0.15
planeStartX == 1500000
\* the point starts at x = -0.15
pointStartX == -1500000

\* ------------------------------------------------------------ glm algebra
Idx == 0..3

Abs(x) == IF x < 0 THEN -x ELSE x

\* glm::mat4(1.0f)
Identity == [c \in Idx |-> [r \in Idx |-> IF c = r THEN 1 ELSE 0]]

\* storage that nothing has written: all bits zero
ZeroMat == [c \in Idx |-> [r \in Idx |-> 0]]

\* What `glm::mat4 m;` leaves in m.  The default constructor of glm::mat4
\* writes the identity in the glm releases that initialise by default and
\* writes nothing in those that do not, where the matrix keeps what its
\* storage held.
DefaultMat4 == {Identity, ZeroMat}

\* a * b for glm::mat4
MatMul(a, b) ==
  [c \in Idx |-> [r \in Idx |->
     a[0][r] * b[c][0] + a[1][r] * b[c][1] + a[2][r] * b[c][2] + a[3][r] * b[c][3]]]

\* m * v for a glm::vec4 v = <<x, y, z, w>>
MatVec(m, v) ==
  [r \in Idx |-> m[0][r] * v[1] + m[1][r] * v[2] + m[2][r] * v[3] + m[3][r] * v[4]]

\* glm::translate(m, v): m with column 3 replaced by m[0]*v.x + m[1]*v.y + m[2]*v.z + m[3]
Translate(m, v) ==
  [m EXCEPT ![3] = [r \in Idx |->
     m[0][r] * v[1] + m[1][r] * v[2] + m[2][r] * v[3] + m[3][r]]]

\* cosine and sine of q quarter turns
Cos(q) == CASE q % 4 = 0 -> 1 [] q % 4 = 1 -> 0 [] q % 4 = 2 -> -1 [] OTHER -> 0
Sin(q) == CASE q % 4 = 0 -> 0 [] q % 4 = 1 -> 1 [] q % 4 = 2 -> 0 [] OTHER -> -1

\* glm::rotate(glm::mat4(1.0f), angle, glm::vec3(0, 1, 0)), angle = q quarter turns
RotateY(q) ==
  [c \in Idx |-> [r \in Idx |->
     CASE c = 0 /\ r = 0 -> Cos(q)
       [] c = 0 /\ r = 2 -> -Sin(q)
       [] c = 2 /\ r = 0 -> Sin(q)
       [] c = 2 /\ r = 2 -> Cos(q)
       [] OTHER -> IF c = r THEN 1 ELSE 0]]

\* glm::rotate(glm::mat4(1.0f), angle, glm::vec3(1, 0, 0)), angle = q quarter turns
RotateX(q) ==
  [c \in Idx |-> [r \in Idx |->
     CASE c = 1 /\ r = 1 -> Cos(q)
       [] c = 1 /\ r = 2 -> Sin(q)
       [] c = 2 /\ r = 1 -> -Sin(q)
       [] c = 2 /\ r = 2 -> Cos(q)
       [] OTHER -> IF c = r THEN 1 ELSE 0]]

\* glm::dot for glm::vec3
Dot(a, b) == a[1] * b[1] + a[2] * b[2] + a[3] * b[3]

\* glm::cross for glm::vec3
Cross(a, b) ==
  << a[2] * b[3] - b[2] * a[3], a[3] * b[1] - b[3] * a[1], a[1] * b[2] - b[1] * a[2] >>

\* glm::normalize of a vector along one axis (the only kind main() normalises)
Normalize(v) ==
  LET len == Abs(v[1]) + Abs(v[2]) + Abs(v[3])
  IN  << v[1] \div len, v[2] \div len, v[3] \div len >>

\* ------------------------------------------------------------------ state
VARIABLES
  pc,             \* where main() is: start, newPlane, ..., update, render, swap, poll, cleanup, done
  gl,             \* the GL objects init() creates: shaders and program
  meshes,         \* the Mesh objects on the heap, by the global pointer that owns them
  selectedShape,  \* "null", "plane" or "point"
  planeCollider,  \* the Plane object: [alive, normal]
  isMousePressed,
  prevMouseX,
  prevMouseY,
  cursorX,        \* what glfwGetCursorPos reports
  cursorY,
  hue00,          \* hue[0][0], the one element of hue the program writes
  shouldClose,    \* glfwWindowShouldClose(window)
  events,         \* history: input events dispatched so far
  spaceCount,     \* history: Space press/repeat events so far
  lastMouse,      \* history: the most recent mouse-button event, <<button, action>>
  moved,          \* history: cursor travel since the drag was last anchored
  keyCount,       \* history: per mesh, the press/repeat events of each key it received
  hit0            \* history: the collision result before any common translation

progVars == << gl, meshes, selectedShape, planeCollider, isMousePressed,
               prevMouseX, prevMouseY, hue00 >>
histVars == << events, spaceCount, lastMouse, moved, keyCount, hit0 >>
vars == << pc, progVars, cursorX, cursorY, shouldClose, histVars >>

Keys == {"SPACE", "W", "A", "S", "D", "LEFT_CONTROL", "LEFT_SHIFT", "Q"}
MoveKeys == {"W", "A", "S", "D", "LEFT_CONTROL", "LEFT_SHIFT"}
KeyActions == {"PRESS", "REPEAT", "RELEASE"}
Buttons == {"LEFT", "RIGHT"}
ButtonActions == {"PRESS", "RELEASE"}
Shaders == {"vertex_shader", "fragment_shader"}
MeshNames == {"plane", "point"}

\* --------------------------------------------------------------- GL objects
\* glCreateShader: a fresh shader object
glCreateShader(g, h) == [g EXCEPT !.shader[h] = "live"]

\* glDeleteShader(h): releases h; a call on an object already released is recorded
glDeleteShader(g, h) ==
  [g EXCEPT !.shader[h] = "released",
            !.releases[h] = @ + 1,
            !.stale = IF g.shader[h] = "released" THEN @ \cup {h} ELSE @]

\* glAttachShader(program, h); a call with an object already released is recorded
glAttachShader(g, h) ==
  [g EXCEPT !.attached = @ \cup {h},
            !.stale = IF g.shader[h] = "released" THEN @ \cup {h} ELSE @]

\* createShader: create, compile, release on a compile failure, return the handle
createShader(g, h, isCompiled) ==
  LET made == glCreateShader(g, h)
  IN  IF ~isCompiled THEN glDeleteShader(made, h) ELSE made

\* ------------------------------------------------------------------- Mesh
\* struct Mesh after its constructor: the constructor's three glm::mat4(1.0f)
\* go to locals named like the members, so each member keeps what its default
\* construction left (t, r, s)
Mesh(t, r, s) == [translation |-> t, rotation |-> r, scale |-> s]

\* Mesh::GetModelMatrix
GetModelMatrix(m) == MatMul(MatMul(m.translation, m.rotation), m.scale)

\* glm::vec3(m[3][0], m[3][1], m[3][2])
Column3(m) == << m[3][0], m[3][1], m[3][2] >>

\* TestCollision with `<` for `<=`
TestCollisionStrict(pCollider, pModelMatrix, p) ==
  LET n == pCollider.normal
      w == MatVec(pModelMatrix, << n[1], n[2], n[3], 0 >>)
      worldNormal == << w[0], w[1], w[2] >>
      planePos == Column3(pModelMatrix)
      rel == << p[1] - planePos[1], p[2] - planePos[2], p[3] - planePos[3] >>
  IN  Abs(Dot(rel, worldNormal)) < FLT_EPSILON + acceptanceRange

\* TestCollision without `point -= planePos`
TestCollisionUnshifted(pCollider, pModelMatrix, p) ==
  LET n == pCollider.normal
      w == MatVec(pModelMatrix, << n[1], n[2], n[3], 0 >>)
      worldNormal == << w[0], w[1], w[2] >>
  IN  Abs(Dot(p, worldNormal)) <= FLT_EPSILON + acceptanceRange

\* bool TestCollision(const Plane&, const glm::mat4&, glm::vec3)
TestCollision(pCollider, pModelMatrix, p) ==
  LET n == pCollider.normal
      w == MatVec(pModelMatrix, << n[1], n[2], n[3], 0 >>)
      worldNormal == << w[0], w[1], w[2] >>
      planePos == Column3(pModelMatrix)
      rel == << p[1] - planePos[1], p[2] - planePos[2], p[3] - planePos[3] >>
  IN  Abs(Dot(rel, worldNormal)) <= FLT_EPSILON + acceptanceRange

\* the collision test as update() calls it
Colliding(ms, col) ==
  TestCollision(col, GetModelMatrix(ms["plane"]), Column3(ms["point"].translation))

\* ---------------------------------------------------------------- handlers
\* the translation a movement key applies (key_callback, one `if` per key)
KeyDelta(key) ==
  CASE key = "W" -> << 0, movementSpeed, 0 >>
    [] key = "A" -> << -movementSpeed, 0, 0 >>
    [] key = "S" -> << 0, -movementSpeed, 0 >>
    [] key = "D" -> << movementSpeed, 0, 0 >>
    [] key = "LEFT_CONTROL" -> << 0, 0, movementSpeed >>
    [] key = "LEFT_SHIFT" -> << 0, 0, -movementSpeed >>

\* MoveSelected that assigns the step instead of composing it with the old translation
MoveSelectedOverwrite(ms, sel, delta) ==
  [ms EXCEPT ![sel].translation = Translate(Identity, delta)]

\* MoveSelected that moves the plane whatever is selected
MovePlaneAlways(ms, sel, delta) ==
  [ms EXCEPT !["plane"].translation = MatMul(Translate(Identity, delta), @)]

\* selectedShape->translation = glm::translate(glm::mat4(1.0f), delta) * selectedShape->translation
MoveSelected(ms, sel, delta) ==
  [ms EXCEPT ![sel].translation = MatMul(Translate(Identity, delta), @)]

\* selectedShape == plane ? point : plane
OtherShape(sel) == IF sel = "plane" THEN "point" ELSE "plane"

\* key_callback without the test of `action`
key_callback_any_action(key, action) ==
  /\ selectedShape' = IF key = "SPACE" THEN OtherShape(selectedShape) ELSE selectedShape
  /\ meshes' = IF key \in MoveKeys
               THEN MoveSelected(meshes, selectedShape, KeyDelta(key)) ELSE meshes
  /\ UNCHANGED << gl, planeCollider, isMousePressed, prevMouseX, prevMouseY, hue00 >>

\* void key_callback(window, key, scancode, action, mods)
key_callback(key, action) ==
  /\ selectedShape' =
       IF action \in {"PRESS", "REPEAT"} /\ key = "SPACE"
       THEN OtherShape(selectedShape) ELSE selectedShape
  /\ meshes' =
       IF action \in {"PRESS", "REPEAT"} /\ key \in MoveKeys
       THEN MoveSelected(meshes, selectedShape, KeyDelta(key)) ELSE meshes
  /\ UNCHANGED << gl, planeCollider, isMousePressed, prevMouseX, prevMouseY, hue00 >>

\* mouse_callback that does not read the cursor position
mouse_callback_no_refresh(button, action) ==
  /\ isMousePressed' = IF button = "LEFT" THEN (IF action = "PRESS" THEN TRUE ELSE FALSE) ELSE FALSE
  /\ UNCHANGED << prevMouseX, prevMouseY >>
  /\ UNCHANGED << gl, meshes, selectedShape, planeCollider, hue00 >>

\* mouse_callback that does not test which button it is
mouse_callback_any_button(button, action) ==
  /\ isMousePressed' = IF action = "PRESS" THEN TRUE ELSE FALSE
  /\ prevMouseX' = cursorX
  /\ prevMouseY' = cursorY
  /\ UNCHANGED << gl, meshes, selectedShape, planeCollider, hue00 >>

\* void mouse_callback(window, button, action, mods)
mouse_callback(button, action) ==
  /\ isMousePressed' = IF button = "LEFT" THEN (IF action = "PRESS" THEN TRUE ELSE FALSE) ELSE FALSE
  /\ prevMouseX' = cursorX
  /\ prevMouseY' = cursorY
  /\ UNCHANGED << gl, meshes, selectedShape, planeCollider, hue00 >>

\* the drag rotation of update(): yaw * pitch * selectedShape->rotation, where yaw
\* and pitch are default-constructed (y0, p0) and assigned only for a nonzero delta
Dragged(ms, sel, dX, dY, y0, p0) ==
  LET yaw == IF dX # 0 THEN RotateY(dX) ELSE y0
      pitch == IF dY # 0 THEN RotateX(dY) ELSE p0
  IN  [ms EXCEPT ![sel].rotation = MatMul(MatMul(yaw, pitch), @)]

\* update that tests the collision before it applies the drag
update_stale(y0, p0) ==
  LET after == IF isMousePressed
               THEN Dragged(meshes, selectedShape,
                            cursorX - prevMouseX, cursorY - prevMouseY, y0, p0)
               ELSE meshes
  IN  /\ meshes' = after
      /\ prevMouseX' = IF isMousePressed THEN cursorX ELSE prevMouseX
      /\ prevMouseY' = IF isMousePressed THEN cursorY ELSE prevMouseY
      /\ hue00' = IF Colliding(meshes, planeCollider) THEN 1 ELSE 0
      /\ UNCHANGED << gl, selectedShape, planeCollider, isMousePressed >>

\* void update()
update(y0, p0) ==
  LET after == IF isMousePressed
               THEN Dragged(meshes, selectedShape,
                            cursorX - prevMouseX, cursorY - prevMouseY, y0, p0)
               ELSE meshes
  IN  /\ meshes' = after
      /\ prevMouseX' = IF isMousePressed THEN cursorX ELSE prevMouseX
      /\ prevMouseY' = IF isMousePressed THEN cursorY ELSE prevMouseY
      /\ hue00' = IF Colliding(after, planeCollider) THEN 1 ELSE 0
      /\ UNCHANGED << gl, selectedShape, planeCollider, isMousePressed >>

\* void renderScene(): uploads hue and draws both meshes; no program state changes
renderScene == UNCHANGED progVars

\* void init(): both shaders through createShader, then attached and linked
init(vsOk, fsOk) ==
  LET a == createShader(gl, "vertex_shader", vsOk)
      b == createShader(a, "fragment_shader", fsOk)
      c == [b EXCEPT !.program = "live"]
      d == glAttachShader(c, "vertex_shader")
  IN  /\ gl' = glAttachShader(d, "fragment_shader")
      /\ UNCHANGED << meshes, selectedShape, planeCollider, isMousePressed,
                      prevMouseX, prevMouseY, hue00 >>

\* main(): the normal of the plane collider, from two edges of planeVerts
ColliderNormal ==
  LET v0 == << 0, 1, 1 >>
      v1 == << 0, -1, 1 >>
      v2 == << 0, -1, -1 >>
      edge1 == << v0[1] - v1[1], v0[2] - v1[2], v0[3] - v1[3] >>
      edge2 == << v1[1] - v2[1], v1[2] - v2[2], v1[3] - v2[3] >>
  IN  Normalize(Cross(edge1, edge2))

\* main(): glDeleteShader twice, glDeleteProgram, delete plane, point, planeCollider
Shutdown ==
  LET a == glDeleteShader(gl, "vertex_shader")
      b == glDeleteShader(a, "fragment_shader")
  IN  /\ gl' = [b EXCEPT !.program = "released"]
      /\ meshes' = [n \in {} |-> n]
      /\ planeCollider' = [planeCollider EXCEPT !.alive = FALSE]
      /\ UNCHANGED << selectedShape, isMousePressed, prevMouseX, prevMouseY, hue00 >>

\* ------------------------------------------------------------ the program
NoShaders ==
  [shader |-> [h \in Shaders |-> "none"], releases |-> [h \in Shaders |-> 0],
   stale |-> {}, attached |-> {}, program |-> "none"]

NoKeys == [m \in MeshNames |-> [k \in MoveKeys |-> 0]]

LoopPcs == {"update", "render", "swap", "poll"}

\* the state when main() is entered: globals zero or default-constructed
Init ==
  /\ pc = "start"
  /\ gl = NoShaders
  /\ meshes = [n \in {} |-> n]
  /\ selectedShape = "null"
  /\ planeCollider = [alive |-> FALSE, normal |-> << 0, 0, 0 >>]
  /\ isMousePressed = FALSE
  /\ prevMouseX = 0
  /\ prevMouseY = 0
  /\ cursorX = 0
  /\ cursorY = 0
  /\ hue00 \in {m[0][0] : m \in DefaultMat4}
  /\ shouldClose = FALSE
  /\ events = 0
  /\ spaceCount = 0
  /\ lastMouse = << "none", "none" >>
  /\ moved = << 0, 0 >>
  /\ keyCount = NoKeys
  /\ hit0 = FALSE

\* main(): glfwInit .. init()
Start ==
  /\ pc = "start"
  /\ \E vsOk \in BOOLEAN, fsOk \in BOOLEAN : init(vsOk, fsOk)
  /\ pc' = "newPlane"
  /\ UNCHANGED << cursorX, cursorY, shouldClose, histVars >>

\* main(): plane = new struct Mesh(6, planeVerts, GL_TRIANGLES)
NewPlane ==
  /\ pc = "newPlane"
  /\ \E d \in DefaultMat4 : meshes' = [n \in {"plane"} |-> Mesh(d, d, d)]
  /\ pc' = "movePlane"
  /\ UNCHANGED << gl, selectedShape, planeCollider, isMousePressed, prevMouseX,
                  prevMouseY, hue00, cursorX, cursorY, shouldClose, histVars >>

\* main(): plane->translation = glm::translate(plane->translation, (0.15, 0, 0))
MovePlane ==
  /\ pc = "movePlane"
  /\ meshes' = [meshes EXCEPT !["plane"].translation = Translate(@, << planeStartX, 0, 0 >>)]
  /\ pc' = "newPoint"
  /\ UNCHANGED << gl, selectedShape, planeCollider, isMousePressed, prevMouseX,
                  prevMouseY, hue00, cursorX, cursorY, shouldClose, histVars >>

\* main(): point = new struct Mesh(1, &pointVert, GL_POINTS)
NewPoint ==
  /\ pc = "newPoint"
  /\ \E d \in DefaultMat4 :
       meshes' = [n \in MeshNames |-> IF n = "point" THEN Mesh(d, d, d) ELSE meshes[n]]
  /\ pc' = "movePoint"
  /\ UNCHANGED << gl, selectedShape, planeCollider, isMousePressed, prevMouseX,
                  prevMouseY, hue00, cursorX, cursorY, shouldClose, histVars >>

\* main(): point->translation = glm::translate(point->translation, (-0.15, 0, 0))
MovePoint ==
  /\ pc = "movePoint"
  /\ meshes' = [meshes EXCEPT !["point"].translation = Translate(@, << pointStartX, 0, 0 >>)]
  /\ pc' = "select"
  /\ UNCHANGED << gl, selectedShape, planeCollider, isMousePressed, prevMouseX,
                  prevMouseY, hue00, cursorX, cursorY, shouldClose, histVars >>

\* main(): selectedShape = plane; planeCollider = new struct Plane(normal); enter the loop
SelectPlane ==
  /\ pc = "select"
  /\ selectedShape' = "plane"
  /\ planeCollider' = [alive |-> TRUE, normal |-> ColliderNormal]
  /\ pc' = "update"
  /\ UNCHANGED << gl, meshes, isMousePressed, prevMouseX, prevMouseY, hue00,
                  cursorX, cursorY, shouldClose, histVars >>

\* the frame loop: update()
Update ==
  /\ pc = "update"
  /\ \E y0 \in DefaultMat4, p0 \in DefaultMat4 : update(y0, p0)
  /\ pc' = "render"
  /\ moved' = << 0, 0 >>
  /\ UNCHANGED << cursorX, cursorY, shouldClose, events, spaceCount, lastMouse,
                  keyCount, hit0 >>

\* the frame loop: renderScene()
Render ==
  /\ pc = "render"
  /\ renderScene
  /\ pc' = "swap"
  /\ UNCHANGED << cursorX, cursorY, shouldClose, histVars >>

\* the frame loop: glfwSwapBuffers(window)
Swap ==
  /\ pc = "swap"
  /\ pc' = "poll"
  /\ UNCHANGED << progVars, cursorX, cursorY, shouldClose, histVars >>

\* glfwPollEvents dispatches a key event to key_callback
KeyEvent ==
  /\ pc = "poll"
  /\ events < MaxEvents
  /\ \E key \in Keys, action \in KeyActions :
       /\ key_callback(key, action)
       /\ spaceCount' = IF key = "SPACE" /\ action # "RELEASE"
                        THEN spaceCount + 1 ELSE spaceCount
  /\ events' = events + 1
  /\ UNCHANGED << pc, cursorX, cursorY, shouldClose, lastMouse, moved, keyCount, hit0 >>

\* glfwPollEvents dispatches a mouse-button event to mouse_callback
MouseButtonEvent ==
  /\ pc = "poll"
  /\ events < MaxEvents
  /\ \E button \in Buttons, action \in ButtonActions :
       /\ mouse_callback(button, action)
       /\ lastMouse' = << button, action >>
  /\ moved' = << 0, 0 >>
  /\ events' = events + 1
  /\ UNCHANGED << pc, cursorX, cursorY, shouldClose, spaceCount, keyCount, hit0 >>

\* the user moves the cursor one step along an axis: glfwGetCursorPos reports the
\* new place from then on
CursorMove ==
  /\ pc \in LoopPcs
  /\ events < MaxEvents
  /\ \E dx \in -1..1, dy \in -1..1 :
       /\ (dx = 0) # (dy = 0)
       /\ cursorX' = cursorX + dx
       /\ cursorY' = cursorY + dy
       /\ moved' = IF isMousePressed THEN << moved[1] + dx, moved[2] + dy >> ELSE moved
  /\ events' = events + 1
  /\ UNCHANGED << pc, progVars, shouldClose, spaceCount, lastMouse, keyCount, hit0 >>

\* glfwPollEvents sees the close request of the window
CloseRequest ==
  /\ pc = "poll"
  /\ ~shouldClose
  /\ shouldClose' = TRUE
  /\ UNCHANGED << pc, progVars, cursorX, cursorY, histVars >>

\* glfwPollEvents returns; while (!glfwWindowShouldClose(window))
PollReturn ==
  /\ pc = "poll"
  /\ pc' = IF shouldClose THEN "cleanup" ELSE "update"
  /\ UNCHANGED << progVars, cursorX, cursorY, shouldClose, histVars >>

\* main(): the cleanup after the loop
Cleanup ==
  /\ pc = "cleanup"
  /\ Shutdown
  /\ pc' = "done"
  /\ UNCHANGED << cursorX, cursorY, shouldClose, histVars >>

Next ==
  \/ Start
  \/ NewPlane
  \/ MovePlane
  \/ NewPoint
  \/ MovePoint
  \/ SelectPlane
  \/ Update
  \/ Render
  \/ Swap
  \/ KeyEvent
  \/ MouseButtonEvent
  \/ CursorMove
  \/ CloseRequest
  \/ PollReturn
  \/ Cleanup

Spec == Init /\ [][Next]_vars

\* ------------------------------------------------- the keyboard on its own
\* two freshly built meshes whose transforms are the identity, the plane selected
InitKeys ==
  /\ pc = "poll"
  /\ gl = NoShaders
  /\ meshes = [n \in MeshNames |-> Mesh(Identity, Identity, Identity)]
  /\ selectedShape = "plane"
  /\ planeCollider = [alive |-> TRUE, normal |-> ColliderNormal]
  /\ isMousePressed = FALSE
  /\ prevMouseX = 0
  /\ prevMouseY = 0
  /\ cursorX = 0
  /\ cursorY = 0
  /\ hue00 = 0
  /\ shouldClose = FALSE
  /\ events = 0
  /\ spaceCount = 0
  /\ lastMouse = << "none", "none" >>
  /\ moved = << 0, 0 >>
  /\ keyCount = NoKeys
  /\ hit0 = FALSE

\* a key event, with the count of what each mesh received
KeyPress ==
  /\ events < MaxKeys
  /\ \E key \in Keys, action \in KeyActions :
       /\ key_callback(key, action)
       /\ spaceCount' = IF key = "SPACE" /\ action # "RELEASE"
                        THEN spaceCount + 1 ELSE spaceCount
       /\ keyCount' = IF key \in MoveKeys /\ action # "RELEASE"
                      THEN [keyCount EXCEPT ![selectedShape][key] = @ + 1]
                      ELSE keyCount
  /\ events' = events + 1
  /\ UNCHANGED << pc, cursorX, cursorY, shouldClose, lastMouse, moved, hit0 >>

NextKeys == KeyPress

SpecKeys == InitKeys /\ [][NextKeys]_vars

\* ------------------------------------------- the collision test on its own
\* the edge of the tolerance band
Band == FLT_EPSILON + acceptanceRange

\* coordinates at and around the band's two edges and its middle, and 0.003 either side
NearBand ==
  {s * Band + o : s \in {-1, 0, 1}, o \in -MaxOff..MaxOff}
    \cup {3 * (acceptanceRange \div 2), -3 * (acceptanceRange \div 2)}

\* plane meshes: at the origin or moved, unrotated or turned about Y, X or both
PlaneInputs ==
  {Mesh(Translate(Identity, << x, y, 0 >>), r, Identity) :
     x \in {0, movementSpeed}, y \in {0, -movementSpeed},
     r \in {Identity, RotateY(1), RotateX(1), MatMul(RotateY(1), RotateX(3))}}

\* point meshes: x near the band, y and z inside, on and outside it
PointInputs ==
  {Mesh(Translate(Identity, << x, y, z >>), Identity, Identity) :
     x \in NearBand, y \in {0, -movementSpeed - Band}, z \in {0, Band + 1}}

InitCollide ==
  /\ pc = "input"
  /\ gl = NoShaders
  /\ \E pl \in PlaneInputs, pt \in PointInputs :
       meshes = [n \in MeshNames |-> IF n = "plane" THEN pl ELSE pt]
  /\ selectedShape = "plane"
  /\ planeCollider = [alive |-> TRUE, normal |-> << 1, 0, 0 >>]
  /\ isMousePressed = FALSE
  /\ prevMouseX = 0
  /\ prevMouseY = 0
  /\ cursorX = 0
  /\ cursorY = 0
  /\ hue00 = 0
  /\ shouldClose = FALSE
  /\ events = 0
  /\ spaceCount = 0
  /\ lastMouse = << "none", "none" >>
  /\ moved = << 0, 0 >>
  /\ keyCount = NoKeys
  /\ hit0 = FALSE

\* the test on the inputs as given
TestOnce ==
  /\ pc = "input"
  /\ hit0' = Colliding(meshes, planeCollider)
  /\ pc' = "tested"
  /\ UNCHANGED << progVars, cursorX, cursorY, shouldClose, events, spaceCount,
                  lastMouse, moved, keyCount >>

\* the plane and the point both translated by (t, 0, 0)
TranslateBoth ==
  /\ pc = "tested"
  /\ events < MaxShifts
  /\ \E t \in {-movementSpeed, -1, Band, movementSpeed} :
       meshes' = MoveSelected(MoveSelected(meshes, "plane", << t, 0, 0 >>),
                              "point", << t, 0, 0 >>)
  /\ events' = events + 1
  /\ UNCHANGED << pc, gl, selectedShape, planeCollider, isMousePressed, prevMouseX,
                  prevMouseY, hue00, cursorX, cursorY, shouldClose, spaceCount,
                  lastMouse, moved, keyCount, hit0 >>

NextCollide ==
  \/ TestOnce
  \/ TranslateBoth

SpecCollide == InitCollide /\ [][NextCollide]_vars

\* ------------------------------------------------------------------ claims
StartupPcs == {"start", "newPlane", "movePlane", "newPoint", "movePoint", "select"}

\* C1: with normal (1,0,0), an identity model matrix and the point at (d, 0, 0),
\* TestCollision is true exactly when |d| <= FLT_EPSILON + 0.002; d = 0, 0.002
\* and -0.002 collide, d = 0.003 does not.
C1_Boundary ==
  LET model == GetModelMatrix(meshes["plane"])
      p == Column3(meshes["point"].translation)
      far == 3 * (acceptanceRange \div 2)
      col == [normal |-> << 1, 0, 0 >>]
  IN  /\ (pc = "tested" /\ events = 0 /\ model = Identity /\ p[2] = 0 /\ p[3] = 0) =>
           (hit0 <=> Abs(p[1]) <= FLT_EPSILON + acceptanceRange)
      /\ (model = Identity /\ p[2] = 0 /\ p[3] = 0) =>
           (TestCollision(planeCollider, model, p) <=> Abs(p[1]) <= FLT_EPSILON + acceptanceRange)
      /\ \A d \in {0, acceptanceRange, -acceptanceRange} : TestCollision(col, Identity, << d, 0, 0 >>)
      /\ ~TestCollision(col, Identity, << far, 0, 0 >>)

\* the point sits at d = 0.002 on an untransformed plane and the test has found the collision
C1_Witness ==
  /\ GetModelMatrix(meshes["plane"]) = Identity
  /\ Column3(meshes["point"].translation) = << acceptanceRange, 0, 0 >>
  /\ pc = "tested"
  /\ events = 0
  /\ hit0

\* C2: from the moment main() has set it, the selection is one of the two meshes
\* and is the plane exactly when the number of Space press/repeat events so far is
\* even (so it starts as the plane, and nothing but such an event changes it).
C2_SelectionParity ==
  pc \notin StartupPcs =>
    /\ selectedShape \in MeshNames
    /\ selectedShape = "plane" <=> spaceCount % 2 = 0

\* two Space events have brought the selection back to the plane
C2_Witness == spaceCount = 2 /\ selectedShape = "plane" /\ pc = "poll"

\* what a key event may change
KeyFrame(key, action) ==
  IF action = "RELEASE" THEN UNCHANGED progVars
  ELSE IF key \in MoveKeys
  THEN /\ meshes'[OtherShape(selectedShape)] = meshes[OtherShape(selectedShape)]
       /\ meshes'[selectedShape].rotation = meshes[selectedShape].rotation
       /\ meshes'[selectedShape].scale = meshes[selectedShape].scale
       /\ UNCHANGED << gl, selectedShape, planeCollider, isMousePressed,
                       prevMouseX, prevMouseY, hue00 >>
  ELSE TRUE

\* C3: a press or repeat of a movement key changes only the translation of the
\* mesh selected at that moment; a key release changes no program state.
C3_KeyFrame ==
  [][\A key \in Keys, action \in KeyActions :
       (pc = "poll" /\ key_callback(key, action)) => KeyFrame(key, action)]_vars

\* the point was selected and moved by a key; the plane is where main() put it
C3_Witness ==
  /\ pc = "poll"
  /\ selectedShape = "point"
  /\ meshes["point"].translation = Translate(Identity, << pointStartX, movementSpeed, 0 >>)
  /\ meshes["plane"].translation = Translate(Identity, << planeStartX, 0, 0 >>)

\* C4: a rotation changes only in an update step taken with the mouse pressed, and
\* the delta that step uses is the cursor travel since the press (or since the
\* previous such update): travel made while the flag was false is no part of it.
C4_DragGate ==
  [][/\ (\E m \in DOMAIN meshes \cap DOMAIN meshes' :
           meshes'[m].rotation # meshes[m].rotation)
          => (pc = "update" /\ isMousePressed)
     /\ isMousePressed => << cursorX - prevMouseX, cursorY - prevMouseY >> = moved
     /\ (pc = "update" /\ pc' = "render" /\ isMousePressed)
          => \E y0 \in DefaultMat4, p0 \in DefaultMat4 :
               meshes' = Dragged(meshes, selectedShape, moved[1], moved[2], y0, p0)]_vars

\* the cursor moved before the press; the update after the press turned nothing
C4_Witness ==
  /\ pc = "render"
  /\ isMousePressed
  /\ << cursorX, cursorY >> # << 0, 0 >>
  /\ << prevMouseX, prevMouseY >> = << cursorX, cursorY >>
  /\ meshes["plane"].rotation = Identity
  /\ meshes["plane"].scale = Identity

\* C5: the flag is true exactly when the most recent mouse-button event was a
\* press of the left button; it is false before the first such event.
C5_PressedIffLastLeftPress ==
  isMousePressed <=> lastMouse = << "LEFT", "PRESS" >>

\* a left press, and the flag still set in the frame after it
C5_Witness == isMousePressed /\ lastMouse = << "LEFT", "PRESS" >> /\ pc = "render"

\* C6: from the identity translation, a mesh's position is the sum of the steps of
\* the keys it received, whatever their order, and its translation matrix is the
\* translation by that sum.
C6_SumOfSteps ==
  \A m \in MeshNames :
    LET c == keyCount[m]
        sum == << (c["D"] - c["A"]) * movementSpeed,
                  (c["W"] - c["S"]) * movementSpeed,
                  (c["LEFT_CONTROL"] - c["LEFT_SHIFT"]) * movementSpeed >>
    IN  meshes[m].translation = Translate(Identity, sum)

\* D and W were pressed on the plane: it is at (movementSpeed, movementSpeed, 0)
C6_Witness ==
  /\ keyCount["plane"]["D"] = 1
  /\ keyCount["plane"]["W"] = 1
  /\ events = 2
  /\ Column3(meshes["plane"].translation) = << movementSpeed, movementSpeed, 0 >>

\* C7: translating the plane and the point by the same (t, 0, 0) leaves the
\* result of TestCollision as it was.
C7_CommonTranslation ==
  pc = "tested" =>
  /\ Colliding(meshes, planeCollider) = hit0
  /\ \A t \in {-movementSpeed, -1, Band, movementSpeed} :
       TestCollision(planeCollider,
                     MatMul(Translate(Identity, << t, 0, 0 >>), GetModelMatrix(meshes["plane"])),
                     << Column3(meshes["point"].translation)[1] + t,
                        Column3(meshes["point"].translation)[2],
                        Column3(meshes["point"].translation)[3] >>)
         = hit0

\* a turned plane and a point on it, both moved, still colliding
C7_Witness ==
  /\ events > 0
  /\ hit0
  /\ meshes["plane"].rotation # Identity
  /\ Column3(meshes["plane"].translation) # << 0, 0, 0 >>
  /\ Colliding(meshes, planeCollider)

\* C8: right after the Mesh constructor returns, the mesh's translation, rotation
\* and scale are each the identity, assigned by the constructor.
C8_ConstructedIdentity ==
  /\ pc = "movePlane" =>
       meshes["plane"] = [translation |-> Identity, rotation |-> Identity, scale |-> Identity]
  /\ pc = "movePoint" =>
       meshes["point"] = [translation |-> Identity, rotation |-> Identity, scale |-> Identity]

\* C9: at every render step hue[0][0] is 1 if the plane's current model matrix and
\* the point's current translation collide and 0 otherwise.
C9_HueFresh ==
  pc = "render" => hue00 = (IF Colliding(meshes, planeCollider) THEN 1 ELSE 0)

\* a frame renders the collision that a drag of the plane has just produced
C9_Witness ==
  /\ pc = "render"
  /\ hue00 = 1
  /\ meshes["plane"].scale = Identity
  /\ meshes["point"].scale = Identity
  /\ meshes["plane"].rotation = RotateY(1)

\* C10: at the end of the run every shader object has been released exactly once,
\* and none was attached or released after its release.
C10_ReleasedOnce ==
  pc = "done" => /\ \A h \in Shaders : gl.releases[h] = 1
                 /\ gl.stale = {}

====
